---- MODULE Spec2Model ----
(***************************************************************************)
(* Model of the asking orchestration of wren-ui                            *)
(* (src/wren-ui/src/apollo/server/services/askingService.ts):              *)
(* the BackgroundTracker polling loop, AskingService.initialize, the       *)
(* request handlers of AskingService, and constructCteSql.                 *)
(*                                                                         *)
(* Every `await` of the source is an interleaving point: the code up to    *)
(* an await is one action, the resumption after it is another.  A          *)
(* repository write takes effect in the action that resumes after it.      *)
(* The AI adaptor and the repositories are the environment: a call to      *)
(* them either returns or throws, and the adaptor moves a job's status on  *)
(* its own.                                                                *)
(***************************************************************************)
EXTENDS Integers, Sequences, FiniteSets, TLC

(* ---- bounds ---- *)
MaxResp == 2        \* response identifiers 1..MaxResp
MaxPre == 2         \* responses persisted before the process started
MaxFail == 1        \* adaptor / repository calls that throw
MaxThread == 2      \* thread identifiers 1..MaxThread
MaxCalls == 2       \* invocations of generateThreadRecommendationQuestions
MaxSteps == 3       \* steps of a response's detail
MaxView == 2        \* saved views a request may name

(* ---- program constants ---- *)
QUERY_ID_PLACEHOLDER == 0

VARIABLES
  repo,         \* threadResponseRepository: id -> row
  adaptor,      \* AI adaptor: job identifier -> status of the ask-detail job
  drifted,      \* history: jobs whose status differed from the registered one
  tasks,        \* BackgroundTracker.tasks: id -> cached ThreadResponse
  runningJobs,  \* BackgroundTracker.runningJobs
  unit,         \* the unit of work of each id that passed the in-flight check
  writes,       \* history: tracker writes per id and status (saturating)
  telemetry,    \* HOME_ANSWER_QUESTION events sent, grouped by response id
  fails,        \* calls that have thrown so far
  initPc,       \* position of AskingService.initialize
  initSnap,     \* result of findAll() held by initialize
  ev,           \* history: what the last step of the tracker did
  threads,      \* threadRepository: thread id -> row
  recTasks,     \* ThreadRecommendQuestionBackgroundTracker.tasks (thread ids)
  gen,          \* invocations of generateThreadRecommendationQuestions
  recCalls,     \* history: adaptor.generateRecommendationQuestions per thread
  recResets,    \* history: recommendation-state resets per thread
  recFinal,     \* history: jobs finalized by the recommendation tracker
  cteIn,        \* constructCteSql: the arguments of the call
  cteOut,       \* constructCteSql: what the call returned or threw
  views,        \* viewRepository: the identifiers of the saved views
  req,          \* the createThread / createThreadResponse call in progress
  threadData,   \* threadRepository: summary and sql of each thread
  upd,          \* the updateThread call in progress
  detail,       \* threadResponseRepository: the detail column of each row
  prev,         \* the previewData call in progress
  recData,      \* threadRepository: questions and questionsError of a thread
  get,          \* the getThreadRecommendationQuestions call in progress
  threadOf,     \* threadResponseRepository: the threadId column of each row
  del,          \* the deleteThread / deleteAllByProjectId call in progress
  cascaded      \* history: tracked responses deleted with their thread

trackerVars == <<repo, adaptor, drifted, tasks, runningJobs, unit, writes,
                 telemetry, initPc, initSnap, ev>>
recVars == <<threads, recTasks, gen, recCalls, recResets, recFinal>>
cteVars == <<cteIn, cteOut>>
askVars == <<views, req>>
updVars == <<threadData, upd>>
prevVars == <<detail, prev>>
getVars == <<recData, get>>
delVars == <<threadOf, del, cascaded>>
newVars == <<cteVars, askVars, updVars, prevVars, getVars, delVars>>
\* what the actions of one part never touch
restOfCte == <<trackerVars, fails, recVars, askVars, updVars, prevVars,
               getVars, delVars>>
restOfAsk == <<drifted, runningJobs, unit, writes, telemetry, initPc,
               initSnap, ev, recTasks, gen, recCalls, recResets, recFinal,
               cteVars, updVars, prevVars, getVars, delVars>>
restOfUpd == <<trackerVars, recVars, cteVars, askVars, prevVars, getVars,
               delVars>>
restOfPrev == <<trackerVars, recVars, cteVars, askVars, updVars, detail,
                getVars, delVars>>
restOfGet == <<trackerVars, recVars, cteVars, askVars, updVars, prevVars,
               recData, delVars>>
restOfDel == <<adaptor, drifted, tasks, runningJobs, unit, writes, telemetry,
               initPc, initSnap, ev, recTasks, gen, recCalls, recResets,
               recFinal, cteVars, askVars, updVars, prevVars, getVars,
               threadOf>>
vars == <<repo, adaptor, drifted, tasks, runningJobs, unit, writes,
          telemetry, fails, initPc, initSnap, ev,
          threads, recTasks, gen, recCalls, recResets, recFinal,
          cteIn, cteOut, views, req, threadData, upd, detail, prev,
          recData, get, threadOf, del, cascaded>>

(* ---- AskResultStatus ---- *)
NonFinalStatuses == {"UNDERSTANDING", "SEARCHING"}
FinalStatuses == {"FAILED", "FINISHED", "STOPPED"}
Statuses == NonFinalStatuses \cup FinalStatuses

isFinalized(status) ==
  status = "FAILED" \/ status = "FINISHED" \/ status = "STOPPED"

Ids == 1..MaxResp
Jobs == 1..MaxResp

NoRow == [status |-> "none", queryId |-> QUERY_ID_PLACEHOLDER]
Row(s, q) == [status |-> s, queryId |-> q]
IdleUnit == [pc |-> "idle", tr |-> NoRow, res |-> "none"]
NoEv == [kind |-> "none", id |-> 0, st |-> "none", started |-> {}, skipped |-> {}]
Ev(k, i, s) == [kind |-> k, id |-> i, st |-> s, started |-> {}, skipped |-> {}]

Tracked == {id \in Ids : tasks[id] # NoRow}
\* history counters tell zero, one and more than one apart
Sat(n) == IF n = 0 THEN 1 ELSE 2
Min(S) == CHOOSE x \in S : \A y \in S : x <= y

(* ---- the environment: the AI adaptor moves a job on its own ---- *)
AdaptorStep(q) ==
  /\ adaptor[q] \in NonFinalStatuses
  /\ \E s \in Statuses \ {adaptor[q]} :
       adaptor' = [adaptor EXCEPT ![q] = s]
  /\ drifted' = drifted \cup {q}
  /\ UNCHANGED <<repo, tasks, runningJobs, unit, writes, telemetry, fails,
                 initPc, initSnap, ev>>
  /\ UNCHANGED <<recVars, newVars>>

(* ---- BackgroundTracker ---- *)
addTask(t, id, row) == [t EXCEPT ![id] = row]

\* faulty variant: a tick that does not look at runningJobs
Tick_NoInFlightCheck ==
  LET started == Tracked
      skipped == {}
  IN /\ runningJobs' = runningJobs \cup started
     /\ unit' = [id \in Ids |->
                  IF id \in started
                    THEN [pc |-> "fetch", tr |-> tasks[id], res |-> "none"]
                    ELSE unit[id]]
     /\ ev' = [kind |-> "tick", id |-> 0, st |-> "none",
               started |-> started, skipped |-> skipped]
     /\ UNCHANGED <<repo, adaptor, drifted, tasks, writes, telemetry, fails,
                    initPc, initSnap>>
     /\ UNCHANGED <<recVars, newVars>>

\* one firing of the setInterval callback: every job() runs synchronously up
\* to its first await, so the in-flight checks of a tick are one step
Tick ==
  LET started == Tracked \ runningJobs
      skipped == Tracked \cap runningJobs
  IN /\ runningJobs' = runningJobs \cup started
     /\ unit' = [id \in Ids |->
                  IF id \in started
                    THEN [pc |-> "fetch", tr |-> tasks[id], res |-> "none"]
                    ELSE unit[id]]
     /\ ev' = [kind |-> "tick", id |-> 0, st |-> "none",
               started |-> started, skipped |-> skipped]
     /\ UNCHANGED <<repo, adaptor, drifted, tasks, writes, telemetry, fails,
                    initPc, initSnap>>
     /\ UNCHANGED <<recVars, newVars>>

\* faulty variant: a rejection that abandons every unit of work in flight
UnitRejected_AbortsAll(id, where) ==
  /\ fails < MaxFail
  /\ fails' = fails + 1
  /\ unit' = [j \in Ids |-> IdleUnit]
  /\ ev' = Ev("rejected", id, where)
  /\ UNCHANGED <<repo, adaptor, drifted, tasks, runningJobs, writes,
                 telemetry, initPc, initSnap>>

\* a promise of the tick rejects: nothing after the throwing await runs
UnitRejected(id, where) ==
  /\ fails < MaxFail
  /\ fails' = fails + 1
  /\ unit' = [unit EXCEPT ![id] = IdleUnit]
  /\ ev' = Ev("rejected", id, where)
  /\ UNCHANGED <<repo, adaptor, drifted, tasks, runningJobs, writes,
                 telemetry, initPc, initSnap>>

\* faulty variant: the result is written without comparing it with the cached status
UnitFetched_NoCompare(id) ==
  LET tr == unit[id].tr
      result == adaptor[tr.queryId]
  IN /\ result # "none"
     /\ runningJobs' = runningJobs
     /\ unit' = [unit EXCEPT ![id] = [pc |-> "update", tr |-> tr,
                                       res |-> result]]
     /\ ev' = Ev("changed", id, result)
     /\ UNCHANGED <<repo, adaptor, drifted, tasks, writes, telemetry, fails,
                    initPc, initSnap>>

\* getAskDetailResult returned: the status comparison
UnitFetched(id) ==
  LET tr == unit[id].tr
      result == adaptor[tr.queryId]
  IN /\ result # "none"
     /\ IF tr.status = result
          THEN /\ runningJobs' = runningJobs \ {id}
               /\ unit' = [unit EXCEPT ![id] = IdleUnit]
               /\ ev' = Ev("unchanged", id, result)
          ELSE /\ runningJobs' = runningJobs
               /\ unit' = [unit EXCEPT ![id] = [pc |-> "update", tr |-> tr,
                                                 res |-> result]]
               /\ ev' = Ev("changed", id, result)
     /\ UNCHANGED <<repo, adaptor, drifted, tasks, writes, telemetry, fails,
                    initPc, initSnap>>

FetchReturn(id) ==
  /\ unit[id].pc = "fetch"
  /\ \/ UnitFetched(id)
     \/ UnitRejected(id, "fetch")
  /\ UNCHANGED <<recVars, newVars>>

\* faulty variant: every event is sent with the default success tag
sendEvent_AlwaysSuccess(tel, id, status) ==
  [tel EXCEPT ![id] = Append(@, [status |-> status, ok |-> TRUE])]

sendEvent(tel, id, status) ==
  [tel EXCEPT ![id] = Append(@, [status |-> status,
                                 ok |-> (status = "FINISHED")])]

\* faulty variant: a finalized entry is reported but stays in the tracked mapping
UnitPersisted_KeepsTask(id) ==
  LET res == unit[id].res
  IN /\ repo' = IF repo[id] = NoRow THEN repo
                ELSE [repo EXCEPT ![id] = [@ EXCEPT !.status = res]]
     /\ writes' = [writes EXCEPT ![id] = [@ EXCEPT ![res] = Sat(@)]]
     /\ IF isFinalized(res)
          THEN telemetry' = sendEvent(telemetry, id, res)
          ELSE telemetry' = telemetry
     /\ tasks' = tasks
     /\ runningJobs' = runningJobs \ {id}
     /\ unit' = [unit EXCEPT ![id] = IdleUnit]
     /\ ev' = Ev("persisted", id, res)
     /\ UNCHANGED <<adaptor, drifted, fails, initPc, initSnap>>

\* faulty variant: a finalized entry is removed in this segment, its
\* in-flight marker is left for a later one
UnitPersisted_KeepsMarker(id) ==
  LET res == unit[id].res
  IN /\ repo' = IF repo[id] = NoRow THEN repo
                ELSE [repo EXCEPT ![id] = [@ EXCEPT !.status = res]]
     /\ writes' = [writes EXCEPT ![id] = [@ EXCEPT ![res] = Sat(@)]]
     /\ IF isFinalized(res)
          THEN /\ telemetry' = sendEvent(telemetry, id, res)
               /\ tasks' = [tasks EXCEPT ![id] = NoRow]
               /\ runningJobs' = runningJobs
          ELSE /\ telemetry' = telemetry
               /\ tasks' = tasks
               /\ runningJobs' = runningJobs \ {id}
     /\ unit' = [unit EXCEPT ![id] = IdleUnit]
     /\ ev' = Ev("persisted", id, res)
     /\ UNCHANGED <<adaptor, drifted, fails, initPc, initSnap>>

\* updateOne returned: the write is in the repository (a row that is gone
\* is not written); finalized entries are reported and removed, and the
\* in-flight marker is cleared
UnitPersisted(id) ==
  LET res == unit[id].res
  IN /\ repo' = IF repo[id] = NoRow THEN repo
                ELSE [repo EXCEPT ![id] = [@ EXCEPT !.status = res]]
     /\ writes' = [writes EXCEPT ![id] = [@ EXCEPT ![res] = Sat(@)]]
     /\ IF isFinalized(res)
          THEN /\ telemetry' = sendEvent(telemetry, id, res)
               /\ tasks' = [tasks EXCEPT ![id] = NoRow]
          ELSE /\ telemetry' = telemetry
               /\ tasks' = tasks
     /\ runningJobs' = runningJobs \ {id}
     /\ unit' = [unit EXCEPT ![id] = IdleUnit]
     /\ ev' = Ev("persisted", id, res)
     /\ UNCHANGED <<adaptor, drifted, fails, initPc, initSnap>>

UpdateReturn(id) ==
  /\ unit[id].pc = "update"
  /\ \/ UnitPersisted(id)
     \/ UnitRejected(id, "update")
  /\ UNCHANGED <<recVars, newVars>>

(* ---- AskingService.initialize (startup hook) ---- *)
\* findAll() returned
InitFindAll ==
  /\ initPc = "start"
  /\ \/ /\ initPc' = "found"
        /\ initSnap' = repo
        /\ fails' = fails
     \/ /\ fails < MaxFail
        /\ fails' = fails + 1
        /\ initPc' = "failed"
        /\ initSnap' = initSnap
  /\ UNCHANGED <<repo, adaptor, drifted, tasks, runningJobs, unit, writes,
                 telemetry, ev>>
  /\ UNCHANGED <<recVars, newVars>>

\* faulty variant: no filter on the status
allThreadResponses(rows) ==
  {id \in Ids : rows[id] # NoRow}

unfininshedThreadResponses(rows) ==
  {id \in Ids : rows[id] # NoRow /\ ~isFinalized(rows[id].status)}

\* the filter and the addTask loop
InitRegister ==
  /\ initPc = "found"
  /\ LET reg == unfininshedThreadResponses(initSnap)
     IN /\ tasks' = [id \in Ids |->
                       IF id \in reg THEN addTask(tasks, id, initSnap[id])[id]
                                     ELSE tasks[id]]
        /\ drifted' = (drifted \ {initSnap[id].queryId : id \in reg})
                      \cup {initSnap[id].queryId : id \in
                              {i \in reg : adaptor[initSnap[i].queryId]
                                             # initSnap[i].status}}
  /\ initPc' = "done"
  /\ ev' = Ev("initialized", 0, "none")
  /\ UNCHANGED <<repo, adaptor, runningJobs, unit, writes, telemetry, fails,
                 initSnap>>
  /\ UNCHANGED <<recVars, newVars>>

(* ---- AskingService.createThreadResponse, adaptor path ---- *)
\* A request is between generateAskDetail and createOne while its job has no
\* row; a request whose call threw leaves nothing behind.  Several requests
\* may be under way at once.
FreeIds == {id \in Ids : repo[id] = NoRow}
FreeJobs == {q \in Jobs : adaptor[q] = "none"}
PendingJobs == {q \in Jobs : adaptor[q] # "none"
                             /\ \A id \in Ids : repo[id].queryId # q}

\* generateAskDetail returned the identifier of a new job: createOne is called
AskDetailReturn ==
  /\ initPc = "done"
  /\ FreeJobs # {}
  /\ adaptor' = [adaptor EXCEPT ![Min(FreeJobs)] = "UNDERSTANDING"]
  /\ UNCHANGED <<repo, drifted, tasks, runningJobs, unit, writes, telemetry,
                 fails, initPc, initSnap, ev>>
  /\ UNCHANGED <<recVars, newVars>>

\* createOne returned the new row, which is registered in the same segment
CreateResponseReturn(q) ==
  /\ q \in PendingJobs
  /\ FreeIds # {}
  /\ LET id == Min(FreeIds)
         threadResponse == Row("UNDERSTANDING", q)
     IN /\ repo' = [repo EXCEPT ![id] = threadResponse]
        /\ tasks' = addTask(tasks, id, threadResponse)
        /\ drifted' = IF adaptor[q] = "UNDERSTANDING"
                        THEN drifted \ {q}
                        ELSE drifted \cup {q}
        /\ ev' = Ev("registered", id, "UNDERSTANDING")
  /\ UNCHANGED <<adaptor, runningJobs, unit, writes, telemetry, fails,
                 initPc, initSnap>>
  /\ UNCHANGED <<recVars, newVars>>

(* ---- AskingService.createThreadResponseFromView ---- *)
\* faulty variant: the row made from a view is handed to the tracker
ViewResponseReturn_Registers ==
  /\ initPc = "done"
  /\ FreeIds # {}
  /\ LET id == Min(FreeIds)
         threadResponse == Row("FINISHED", QUERY_ID_PLACEHOLDER)
     IN /\ repo' = [repo EXCEPT ![id] = threadResponse]
        /\ tasks' = addTask(tasks, id, threadResponse)
  /\ UNCHANGED <<adaptor, drifted, runningJobs, unit, writes, telemetry,
                 fails, initPc, initSnap, ev>>
  /\ UNCHANGED <<recVars, newVars>>

\* createOne of the view path returned the new row: status FINISHED, the
\* placeholder as job identifier, and no addTask
ViewResponseReturn ==
  /\ initPc = "done"
  /\ FreeIds # {}
  /\ repo' = [repo EXCEPT ![Min(FreeIds)] =
                Row("FINISHED", QUERY_ID_PLACEHOLDER)]
  /\ UNCHANGED <<adaptor, drifted, tasks, runningJobs, unit, writes,
                 telemetry, fails, initPc, initSnap, ev>>
  /\ UNCHANGED <<recVars, newVars>>

(* ---- ThreadRecommendQuestionBackgroundTracker ---- *)
Threads == 1..MaxThread
Calls == 1..MaxCalls
NoThread == [exists |-> FALSE, queryId |-> 0, questionsStatus |-> "none"]
IdleGen == [pc |-> "idle", thread |-> 0]

isExist(t) == t \in recTasks
recAddTask(rt, t) == rt \cup {t}

\* the recommendation tracker finalizes a tracked thread's job
RecTrackerFinalize(t) ==
  /\ t \in recTasks
  /\ recTasks' = recTasks \ {t}
  /\ \E s \in {"FINISHED", "FAILED"} :
       threads' = [threads EXCEPT ![t] = [@ EXCEPT !.questionsStatus = s]]
  /\ recFinal' = [recFinal EXCEPT ![t] = Sat(@)]
  /\ UNCHANGED <<gen, recCalls, recResets, fails>>
  /\ UNCHANGED <<trackerVars, newVars>>

(* ---- AskingService.generateThreadRecommendationQuestions ---- *)
GenThrow(c) ==
  /\ fails < MaxFail
  /\ fails' = fails + 1
  /\ gen' = [gen EXCEPT ![c] = [@ EXCEPT !.pc = "failed"]]
  /\ UNCHANGED <<threads, recTasks, recCalls, recResets, recFinal>>

\* the handler is entered: threadRepository.findOneBy is called
GenStart(c, t) ==
  /\ gen[c].pc = "idle"
  /\ gen' = [gen EXCEPT ![c] = [pc |-> "find", thread |-> t]]
  /\ UNCHANGED <<threads, recTasks, recCalls, recResets, recFinal, fails>>
  /\ UNCHANGED <<trackerVars, newVars>>

\* findOneBy returned: the not-found check and the isExist check
GenFound(c) ==
  /\ gen[c].pc = "find"
  /\ \/ /\ gen' = [gen EXCEPT ![c] = [@ EXCEPT !.pc =
                     IF ~threads[gen[c].thread].exists THEN "notfound"
                     ELSE IF isExist(gen[c].thread) THEN "skipped"
                     ELSE "context"]]
        /\ UNCHANGED <<threads, recTasks, recCalls, recResets, recFinal,
                       fails>>
     \/ GenThrow(c)
  /\ UNCHANGED <<trackerVars, newVars>>

\* getCurrentProject, makeCurrentModelMDL and findAllBy returned: the
\* adaptor's generateRecommendationQuestions is called
GenContext(c) ==
  /\ gen[c].pc = "context"
  /\ \/ /\ gen' = [gen EXCEPT ![c] = [@ EXCEPT !.pc = "generate"]]
        /\ recCalls' = [recCalls EXCEPT ![gen[c].thread] = Sat(@)]
        /\ UNCHANGED <<threads, recTasks, recResets, recFinal, fails>>
     \/ GenThrow(c)
  /\ UNCHANGED <<trackerVars, newVars>>

\* the adaptor returned the job identifier: threadRepository.updateOne is called
GenGenerated(c) ==
  /\ gen[c].pc = "generate"
  /\ \/ /\ gen' = [gen EXCEPT ![c] = [@ EXCEPT !.pc = "update"]]
        /\ UNCHANGED <<threads, recTasks, recCalls, recResets, recFinal,
                       fails>>
     \/ GenThrow(c)
  /\ UNCHANGED <<trackerVars, newVars>>

\* updateOne returned the reset thread, which is registered
GenUpdated(c) ==
  /\ gen[c].pc = "update"
  /\ \/ LET t == gen[c].thread
        IN /\ threads' = [threads EXCEPT ![t] =
                            [exists |-> TRUE, queryId |-> c,
                             questionsStatus |-> "GENERATING"]]
           /\ recResets' = [recResets EXCEPT ![t] = Sat(@)]
           /\ recTasks' = recAddTask(recTasks, t)
           /\ gen' = [gen EXCEPT ![c] = [@ EXCEPT !.pc = "done"]]
           /\ UNCHANGED <<recCalls, recFinal, fails>>
     \/ GenThrow(c)
  /\ UNCHANGED <<trackerVars, newVars>>

(* ---- constructCteSql ---- *)
NoIndex == [given |-> FALSE, value |-> 0]
Index(v) == [given |-> TRUE, value |-> v]
isNil(stepIndex) == ~stepIndex.given
CteIdle == [kind |-> "none", sql |-> ""]
Returned(sql) == [kind |-> "returned", sql |-> sql]
Thrown(msg) == [kind |-> "thrown", sql |-> msg]

\* faulty variant: a comma after every binding, the last one included
RECURSIVE forEachStep_CommaAfterEach(_, _, _)
forEachStep_CommaAfterEach(slicedSteps, index, sql) ==
  IF index >= Len(slicedSteps) THEN sql
  ELSE LET step == slicedSteps[index + 1]
           next ==
             IF index = Len(slicedSteps) - 1
               THEN sql \o "\n-- " \o step.summary \o "\n" \o step.sql
             ELSE sql \o step.cteName \o " AS"
                      \o "\n-- " \o step.summary \o "\n"
                      \o "(" \o step.sql \o "),"
       IN forEachStep_CommaAfterEach(slicedSteps, index + 1, next)

\* faulty variant: no comma between bindings
RECURSIVE forEachStep_NoSeparator(_, _, _)
forEachStep_NoSeparator(slicedSteps, index, sql) ==
  IF index >= Len(slicedSteps) THEN sql
  ELSE LET step == slicedSteps[index + 1]
           next ==
             IF index = Len(slicedSteps) - 1
               THEN sql \o "\n-- " \o step.summary \o "\n" \o step.sql
             ELSE sql \o step.cteName \o " AS"
                      \o "\n-- " \o step.summary \o "\n"
                      \o "(" \o step.sql \o ")"
       IN forEachStep_NoSeparator(slicedSteps, index + 1, next)

\* the forEach callback, applied to the steps from position index on
\* (positions as in the source, from 0)
RECURSIVE forEachStep(_, _, _)
forEachStep(slicedSteps, index, sql) ==
  IF index >= Len(slicedSteps) THEN sql
  ELSE LET step == slicedSteps[index + 1]
           next ==
             IF index = Len(slicedSteps) - 1
               THEN sql \o "\n-- " \o step.summary \o "\n" \o step.sql
             ELSE IF index = Len(slicedSteps) - 2
               THEN sql \o step.cteName \o " AS"
                        \o "\n-- " \o step.summary \o "\n"
                        \o "(" \o step.sql \o ")"
             ELSE sql \o step.cteName \o " AS"
                      \o "\n-- " \o step.summary \o "\n"
                      \o "(" \o step.sql \o "),"
       IN forEachStep(slicedSteps, index + 1, next)

\* faulty variant: the last position is rejected as well
constructCteSql_RejectsLast(steps, stepIndex) ==
  IF ~isNil(stepIndex)
     /\ (stepIndex.value < 0 \/ stepIndex.value >= Len(steps) - 1)
    THEN Thrown("Invalid stepIndex")
  ELSE LET slicedSteps == IF isNil(stepIndex) THEN steps
                          ELSE SubSeq(steps, 1, stepIndex.value + 1)
       IN IF Len(slicedSteps) = 1
            THEN Returned("-- " \o slicedSteps[1].summary \o "\n"
                                \o slicedSteps[1].sql)
            ELSE Returned(forEachStep(slicedSteps, 0, "WITH "))

\* faulty variant: a single step goes through the loop like any other
constructCteSql_NoSingleCase(steps, stepIndex) ==
  IF ~isNil(stepIndex)
     /\ (stepIndex.value < 0 \/ stepIndex.value >= Len(steps))
    THEN Thrown("Invalid stepIndex")
  ELSE LET slicedSteps == IF isNil(stepIndex) THEN steps
                          ELSE SubSeq(steps, 1, stepIndex.value + 1)
       IN Returned(forEachStep(slicedSteps, 0, "WITH "))

constructCteSql(steps, stepIndex) ==
  IF ~isNil(stepIndex)
     /\ (stepIndex.value < 0 \/ stepIndex.value >= Len(steps))
    THEN Thrown("Invalid stepIndex")
  ELSE LET slicedSteps == IF isNil(stepIndex) THEN steps
                          ELSE SubSeq(steps, 1, stepIndex.value + 1)
       IN IF Len(slicedSteps) = 1
            THEN Returned("-- " \o slicedSteps[1].summary \o "\n"
                                \o slicedSteps[1].sql)
            ELSE Returned(forEachStep(slicedSteps, 0, "WITH "))

\* the call of constructCteSql on the chosen arguments
CteCall ==
  /\ cteOut = CteIdle
  /\ cteOut' = constructCteSql(cteIn.steps, cteIn.stepIndex)
  /\ UNCHANGED cteIn
  /\ UNCHANGED restOfCte

(* ---- createThread, createThreadResponse and the view path ---- *)
Views == 1..MaxView
\* input.viewId: 0 stands for an absent one (the handlers test it for truth)
ViewIds == 0..MaxView
FreeThreads == {t \in Threads : ~threads[t].exists}
\* the rows and jobs a handler can change, as they were when it was called
Snapshot == [adaptor |-> adaptor, threads |-> threads, repo |-> repo,
             tasks |-> tasks]
NoSnapshot == [adaptor |-> [q \in 0..MaxResp |-> "none"],
               threads |-> [t \in Threads |-> NoThread],
               repo |-> [id \in Ids |-> NoRow],
               tasks |-> [id \in Ids |-> NoRow]]
IdleReq == [op |-> "none", pc |-> "idle", viewId |-> 0, threadId |-> 0,
            queryId |-> 0, calls |-> <<>>, failedAt |-> "none",
            error |-> "none", before |-> NoSnapshot]
\* the positions at which a handler awaits a downstream call
AwaitPcs == {"ct_detail", "ct_project", "ct_thread", "ct_response",
             "fv_view", "fv_project", "fv_thread", "rv_response",
             "cr_thread", "cr_view", "cr_detail", "cr_response"}
Called(c) == [req EXCEPT !.calls = Append(@, c)]

\* faulty variant: the viewId of the input is not looked at
createThread_IgnoresView(viewId) ==
  /\ req = IdleReq
  /\ FreeThreads # {} /\ FreeIds # {} /\ FreeJobs # {}
  /\ req' = [IdleReq EXCEPT !.op = "createThread", !.viewId = viewId,
                            !.before = Snapshot,
                            !.calls = <<"generateAskDetail">>,
                            !.pc = "ct_detail"]
  /\ UNCHANGED <<repo, adaptor, tasks, threads, fails, views>>
  /\ UNCHANGED restOfAsk

\* createThread up to its first await
createThread(viewId) ==
  /\ req = IdleReq
  /\ FreeThreads # {} /\ FreeIds # {} /\ FreeJobs # {}
  /\ req' = IF viewId # 0
              THEN [IdleReq EXCEPT !.op = "createThread",
                                   !.viewId = viewId,
                                   !.before = Snapshot,
                                   !.calls = <<"viewRepository.findOneBy">>,
                                   !.pc = "fv_view"]
              ELSE [IdleReq EXCEPT !.op = "createThread",
                                   !.viewId = viewId,
                                   !.before = Snapshot,
                                   !.calls = <<"generateAskDetail">>,
                                   !.pc = "ct_detail"]
  /\ UNCHANGED <<repo, adaptor, tasks, threads, fails, views>>
  /\ UNCHANGED restOfAsk

\* faulty variant: a rejected generateAskDetail is swallowed and the
\* handler goes on
AskRejected_Swallowed ==
  /\ req.pc \in AwaitPcs
  /\ fails < MaxFail
  /\ fails' = fails + 1
  /\ req' = IF req.pc = "ct_detail"
              THEN [Called("getCurrentProject") EXCEPT !.pc = "ct_project"]
              ELSE [req EXCEPT !.pc = "rejected", !.failedAt = req.pc]
  /\ UNCHANGED <<repo, adaptor, tasks, threads, views>>
  /\ UNCHANGED restOfAsk

\* the awaited downstream call rejects: the handler has no catch, the error
\* reaches the caller
AskRejected ==
  /\ req.pc \in AwaitPcs
  /\ fails < MaxFail
  /\ fails' = fails + 1
  /\ req' = [req EXCEPT !.pc = "rejected", !.failedAt = req.pc]
  /\ UNCHANGED <<repo, adaptor, tasks, threads, views>>
  /\ UNCHANGED restOfAsk

\* createThread: generateAskDetail returned the identifier of a new job
CtDetailReturn ==
  /\ req.pc = "ct_detail"
  /\ LET q == Min(FreeJobs)
     IN /\ adaptor' = [adaptor EXCEPT ![q] = "UNDERSTANDING"]
        /\ req' = [Called("getCurrentProject") EXCEPT !.queryId = q,
                                                      !.pc = "ct_project"]
  /\ UNCHANGED <<repo, tasks, threads, fails, views>>
  /\ UNCHANGED restOfAsk

\* createThread: getCurrentProject returned, threadRepository.createOne
CtProjectReturn ==
  /\ req.pc = "ct_project"
  /\ req' = [Called("threadRepository.createOne") EXCEPT !.pc = "ct_thread"]
  /\ UNCHANGED <<repo, adaptor, tasks, threads, fails, views>>
  /\ UNCHANGED restOfAsk

\* createThread: the Thread row exists, threadResponseRepository.createOne
CtThreadReturn ==
  /\ req.pc = "ct_thread"
  /\ LET t == Min(FreeThreads)
     IN /\ threads' = [threads EXCEPT ![t] = [NoThread EXCEPT !.exists = TRUE]]
        /\ req' = [Called("threadResponseRepository.createOne")
                     EXCEPT !.threadId = t, !.pc = "ct_response"]
  /\ UNCHANGED <<repo, adaptor, tasks, fails, views>>
  /\ UNCHANGED restOfAsk

\* createThread: the response row exists and is registered with the tracker
CtResponseReturn ==
  /\ req.pc = "ct_response"
  /\ LET id == Min(FreeIds)
         threadResponse == Row("UNDERSTANDING", req.queryId)
     IN /\ repo' = [repo EXCEPT ![id] = threadResponse]
        /\ tasks' = addTask(tasks, id, threadResponse)
  /\ req' = [Called("addTask") EXCEPT !.pc = "returned"]
  /\ UNCHANGED <<adaptor, threads, fails, views>>
  /\ UNCHANGED restOfAsk

\* createThreadFromView: viewRepository.findOneBy returned
FvViewReturn ==
  /\ req.pc = "fv_view"
  /\ req' = IF req.viewId \notin views
              THEN [req EXCEPT !.pc = "thrown", !.error = "View not found"]
              ELSE [Called("getCurrentProject") EXCEPT !.pc = "fv_project"]
  /\ UNCHANGED <<repo, adaptor, tasks, threads, fails, views>>
  /\ UNCHANGED restOfAsk

\* createThreadFromView: getCurrentProject returned
FvProjectReturn ==
  /\ req.pc = "fv_project"
  /\ req' = [Called("threadRepository.createOne") EXCEPT !.pc = "fv_thread"]
  /\ UNCHANGED <<repo, adaptor, tasks, threads, fails, views>>
  /\ UNCHANGED restOfAsk

\* createThreadFromView: the Thread row exists; createThreadResponseFromView
\* runs up to its createOne
FvThreadReturn ==
  /\ req.pc = "fv_thread"
  /\ LET t == Min(FreeThreads)
     IN /\ threads' = [threads EXCEPT ![t] = [NoThread EXCEPT !.exists = TRUE]]
        /\ req' = [Called("threadResponseRepository.createOne")
                     EXCEPT !.threadId = t, !.pc = "rv_response"]
  /\ UNCHANGED <<repo, adaptor, tasks, fails, views>>
  /\ UNCHANGED restOfAsk

\* createThreadResponseFromView: the response row exists; nothing is
\* registered with the tracker
RvResponseReturn ==
  /\ req.pc = "rv_response"
  /\ repo' = [repo EXCEPT ![Min(FreeIds)] =
                Row("FINISHED", QUERY_ID_PLACEHOLDER)]
  /\ req' = [req EXCEPT !.pc = "returned"]
  /\ UNCHANGED <<adaptor, tasks, threads, fails, views>>
  /\ UNCHANGED restOfAsk

\* createThreadResponse up to its first await
createThreadResponse(threadId, viewId) ==
  /\ req = IdleReq
  /\ FreeIds # {} /\ FreeJobs # {}
  /\ req' = [IdleReq EXCEPT !.op = "createThreadResponse",
                            !.threadId = threadId,
                            !.viewId = viewId,
                            !.before = Snapshot,
                            !.calls = <<"threadRepository.findOneBy">>,
                            !.pc = "cr_thread"]
  /\ UNCHANGED <<repo, adaptor, tasks, threads, fails, views>>
  /\ UNCHANGED restOfAsk

\* faulty variant: the looked-up thread is not tested
CrThreadReturn_NoCheck ==
  /\ req.pc = "cr_thread"
  /\ req' = IF req.viewId # 0
              THEN [Called("viewRepository.findOneBy") EXCEPT !.pc = "cr_view"]
              ELSE [Called("generateAskDetail") EXCEPT !.pc = "cr_detail"]
  /\ UNCHANGED <<repo, adaptor, tasks, threads, fails, views>>
  /\ UNCHANGED restOfAsk

\* createThreadResponse: threadRepository.findOneBy returned
CrThreadReturn ==
  /\ req.pc = "cr_thread"
  /\ req' = IF ~threads[req.threadId].exists
              THEN [req EXCEPT !.pc = "thrown", !.error = "Thread not found"]
            ELSE IF req.viewId # 0
              THEN [Called("viewRepository.findOneBy") EXCEPT !.pc = "cr_view"]
            ELSE [Called("generateAskDetail") EXCEPT !.pc = "cr_detail"]
  /\ UNCHANGED <<repo, adaptor, tasks, threads, fails, views>>
  /\ UNCHANGED restOfAsk

\* createThreadResponse: viewRepository.findOneBy returned
CrViewReturn ==
  /\ req.pc = "cr_view"
  /\ req' = IF req.viewId \notin views
              THEN [req EXCEPT !.pc = "thrown", !.error = "View not found"]
              ELSE [Called("threadResponseRepository.createOne")
                      EXCEPT !.pc = "rv_response"]
  /\ UNCHANGED <<repo, adaptor, tasks, threads, fails, views>>
  /\ UNCHANGED restOfAsk

\* createThreadResponse: generateAskDetail returned the identifier of a job
CrDetailReturn ==
  /\ req.pc = "cr_detail"
  /\ LET q == Min(FreeJobs)
     IN /\ adaptor' = [adaptor EXCEPT ![q] = "UNDERSTANDING"]
        /\ req' = [Called("threadResponseRepository.createOne")
                     EXCEPT !.queryId = q, !.pc = "cr_response"]
  /\ UNCHANGED <<repo, tasks, threads, fails, views>>
  /\ UNCHANGED restOfAsk

\* createThreadResponse: the response row exists and is registered
CrResponseReturn ==
  /\ req.pc = "cr_response"
  /\ LET id == Min(FreeIds)
         threadResponse == Row("UNDERSTANDING", req.queryId)
     IN /\ repo' = [repo EXCEPT ![id] = threadResponse]
        /\ tasks' = addTask(tasks, id, threadResponse)
  /\ req' = [Called("addTask") EXCEPT !.pc = "returned"]
  /\ UNCHANGED <<adaptor, threads, fails, views>>
  /\ UNCHANGED restOfAsk

\* the caller has the result or the error; the next call may come
AskSettled ==
  /\ req.pc \in {"returned", "thrown", "rejected"}
  /\ req' = IdleReq
  /\ UNCHANGED <<repo, adaptor, tasks, threads, fails, views>>
  /\ UNCHANGED restOfAsk

(* ---- updateThread ---- *)
Summaries == {"null", "s1", "s2"}
NoData == [summary |-> "none", sql |-> "none"]
\* the input object: its keys, and the value under summary
UpdateInputs ==
  {[keys |-> {}, summary |-> "undefined"]}
  \cup {[keys |-> {"summary"}, summary |-> v] : v \in Summaries}
isEmpty(input) == input.keys = {}
IdleUpd == [pc |-> "idle", threadId |-> 0,
            input |-> [keys |-> {}, summary |-> "undefined"],
            updates |-> <<>>, error |-> "none",
            before |-> [t \in Threads |-> NoData]]
\* threadRepository.updateOne: the columns named in data are set on the row
\* with that id, if there is one
updateOne(rows, id, data) ==
  IF ~threads[id].exists THEN rows
  ELSE [rows EXCEPT ![id] =
          [summary |-> IF "summary" \in data.fields THEN data.summary
                       ELSE @.summary,
           sql |-> IF "sql" \in data.fields THEN data.sql ELSE @.sql]]

\* faulty variant: the input is not tested for emptiness
updateThread_NoValidation(threadId, input) ==
  /\ upd = IdleUpd
  /\ upd' = [IdleUpd EXCEPT
               !.pc = "update", !.threadId = threadId, !.input = input,
               !.before = threadData,
               !.updates = <<[threadId |-> threadId, fields |-> {"summary"},
                              summary |-> input.summary, sql |-> "none"]>>]
  /\ UNCHANGED <<threadData, fails>>
  /\ UNCHANGED restOfUpd

\* updateThread up to the call of updateOne
updateThread(threadId, input) ==
  /\ upd = IdleUpd
  /\ upd' = IF isEmpty(input)
              THEN [IdleUpd EXCEPT
                      !.pc = "thrown", !.threadId = threadId,
                      !.input = input, !.before = threadData,
                      !.error = "Update thread input is empty"]
              ELSE [IdleUpd EXCEPT
                      !.pc = "update", !.threadId = threadId,
                      !.input = input, !.before = threadData,
                      !.updates = <<[threadId |-> threadId,
                                     fields |-> {"summary"},
                                     summary |-> input.summary,
                                     sql |-> "none"]>>]
  /\ UNCHANGED <<threadData, fails>>
  /\ UNCHANGED restOfUpd

\* updateOne returned: the row is written
UpdReturn ==
  /\ upd.pc = "update"
  /\ threadData' = updateOne(threadData, upd.threadId, upd.updates[1])
  /\ upd' = [upd EXCEPT !.pc = "returned"]
  /\ UNCHANGED fails
  /\ UNCHANGED restOfUpd

\* updateOne rejected: nothing is written
UpdRejected ==
  /\ upd.pc = "update"
  /\ fails < MaxFail
  /\ fails' = fails + 1
  /\ upd' = [upd EXCEPT !.pc = "rejected"]
  /\ UNCHANGED threadData
  /\ UNCHANGED restOfUpd

\* the caller has the row or the error
UpdSettled ==
  /\ upd.pc \in {"returned", "thrown", "rejected"}
  /\ upd' = IdleUpd
  /\ UNCHANGED <<threadData, fails>>
  /\ UNCHANGED restOfUpd

(* ---- previewData ---- *)
NoDetail == [has |-> FALSE, steps |-> <<>>]
Detail(steps) == [has |-> TRUE, steps |-> steps]
\* the formatter of the SQL text: its result stands apart from its argument
format(sql) == "format(" \o sql \o ")"
\* what queryService.preview may throw: a message, and the service it names
QueryErrors == {[message |-> "query failed", service |-> "undefined"],
                [message |-> "timeout", service |-> "IBIS"]}
NoError == [message |-> "none", service |-> "undefined"]
IdlePrev == [pc |-> "idle", responseId |-> 0, stepIndex |-> NoIndex,
             queries |-> <<>>, events |-> <<>>, failedAt |-> "none",
             error |-> "none", thrownByQuery |-> NoError]
\* telemetry.sendEvent(HOME_PREVIEW_ANSWER, properties, service, actionSuccess)
PreviewEvent(sql, error, service, actionSuccess) ==
  [event |-> "HOME_PREVIEW_ANSWER", sql |-> sql, error |-> error,
   service |-> service, actionSuccess |-> actionSuccess]

\* previewData up to its first await
previewData(responseId, stepIndex) ==
  /\ prev = IdlePrev
  /\ prev' = [IdlePrev EXCEPT !.pc = "response", !.responseId = responseId,
                              !.stepIndex = stepIndex]
  /\ UNCHANGED fails
  /\ UNCHANGED restOfPrev

\* getResponse returned
PrevResponseReturn ==
  /\ prev.pc = "response"
  /\ prev' = IF repo[prev.responseId] = NoRow
               THEN [prev EXCEPT !.pc = "thrown",
                                 !.error = "Thread response not found"]
               ELSE [prev EXCEPT !.pc = "project"]
  /\ UNCHANGED fails
  /\ UNCHANGED restOfPrev

\* getCurrentProject returned
PrevProjectReturn ==
  /\ prev.pc = "project"
  /\ prev' = [prev EXCEPT !.pc = "deployment"]
  /\ UNCHANGED fails
  /\ UNCHANGED restOfPrev

\* getLastDeployment returned: the SQL is composed and formatted, which may
\* throw, and queryService.preview is called inside the try
PrevDeploymentReturn ==
  /\ prev.pc = "deployment"
  /\ LET d == detail[prev.responseId]
         composed == constructCteSql(d.steps, prev.stepIndex)
     IN prev' =
          IF ~d.has
            THEN [prev EXCEPT !.pc = "thrown", !.error = "TypeError"]
          ELSE IF composed.kind = "thrown"
            THEN [prev EXCEPT !.pc = "thrown", !.error = composed.sql]
          ELSE [prev EXCEPT !.pc = "query",
                            !.queries = <<format(composed.sql)>>]
  /\ UNCHANGED fails
  /\ UNCHANGED restOfPrev

\* an await before the try rejects: the error reaches the caller
PrevRejected ==
  /\ prev.pc \in {"response", "project", "deployment"}
  /\ fails < MaxFail
  /\ fails' = fails + 1
  /\ prev' = [prev EXCEPT !.pc = "rejected", !.failedAt = prev.pc]
  /\ UNCHANGED restOfPrev

\* queryService.preview returned the data
PrevQueryReturn ==
  /\ prev.pc = "query"
  /\ prev' = [prev EXCEPT
                !.events = Append(@, PreviewEvent(prev.queries[1], "none",
                                                  "undefined", TRUE)),
                !.pc = "returned"]
  /\ UNCHANGED fails
  /\ UNCHANGED restOfPrev

\* faulty variant: the catch block re-throws without an event
PrevQueryFailed_NoEvent(err) ==
  /\ prev.pc = "query"
  /\ fails < MaxFail
  /\ fails' = fails + 1
  /\ prev' = [prev EXCEPT !.thrownByQuery = err,
                          !.pc = "thrown", !.error = err.message]
  /\ UNCHANGED restOfPrev

\* queryService.preview threw: the catch block sends the event and re-throws
PrevQueryFailed(err) ==
  /\ prev.pc = "query"
  /\ fails < MaxFail
  /\ fails' = fails + 1
  /\ prev' = [prev EXCEPT
                !.thrownByQuery = err,
                !.events = Append(@, PreviewEvent(prev.queries[1],
                                                  err.message, err.service,
                                                  FALSE)),
                !.pc = "thrown", !.error = err.message]
  /\ UNCHANGED restOfPrev

\* the caller has the data or the error
PrevSettled ==
  /\ prev.pc \in {"returned", "thrown", "rejected"}
  /\ prev' = IdlePrev
  /\ UNCHANGED fails
  /\ UNCHANGED restOfPrev

(* ---- getThreadRecommendationQuestions ---- *)
RecommendQuestionResultStatus ==
  {"NOT_STARTED", "GENERATING", "FINISHED", "FAILED"}
\* the questions column: null, or a list
NullQuestions == [set |-> FALSE, items |-> <<>>]
Questions(items) == [set |-> TRUE, items |-> items]
NoRecData == [questions |-> NullQuestions, questionsError |-> "null"]
NotStarted == [status |-> "NOT_STARTED", questions |-> <<>>, error |-> "null"]
IdleGet == [pc |-> "idle", threadId |-> 0, res |-> NotStarted,
            error |-> "none",
            before |-> [threads |-> [t \in Threads |-> NoThread],
                        recData |-> [t \in Threads |-> NoRecData],
                        recTasks |-> {},
                        tasks |-> [id \in Ids |-> NoRow]]]

\* faulty variant: a status outside the enum is passed on as it is
recommendQuestionResult_NoFallback(thread, data) ==
  IF thread.queryId # 0 /\ thread.questionsStatus # "none"
    THEN [status |-> thread.questionsStatus,
          questions |-> IF data.questions.set THEN data.questions.items
                        ELSE <<>>,
          error |-> data.questionsError]
    ELSE NotStarted

\* the result built from the row that findOneBy returned
recommendQuestionResult(thread, data) ==
  IF thread.queryId # 0 /\ thread.questionsStatus # "none"
    THEN [status |-> IF thread.questionsStatus
                          \in RecommendQuestionResultStatus
                       THEN thread.questionsStatus
                       ELSE NotStarted.status,
          questions |-> IF data.questions.set THEN data.questions.items
                        ELSE <<>>,
          error |-> data.questionsError]
    ELSE NotStarted

\* getThreadRecommendationQuestions up to its await
getThreadRecommendationQuestions(threadId) ==
  /\ get = IdleGet
  /\ get' = [IdleGet EXCEPT !.pc = "find", !.threadId = threadId,
                            !.before = [threads |-> threads,
                                        recData |-> recData,
                                        recTasks |-> recTasks,
                                        tasks |-> tasks]]
  /\ UNCHANGED fails
  /\ UNCHANGED restOfGet

\* findOneBy returned
GetFindReturn ==
  /\ get.pc = "find"
  /\ get' = IF ~threads[get.threadId].exists
              THEN [get EXCEPT !.pc = "thrown", !.error = "Thread not found"]
              ELSE [get EXCEPT
                      !.pc = "returned",
                      !.res = recommendQuestionResult(threads[get.threadId],
                                                      recData[get.threadId])]
  /\ UNCHANGED fails
  /\ UNCHANGED restOfGet

\* findOneBy rejected
GetRejected ==
  /\ get.pc = "find"
  /\ fails < MaxFail
  /\ fails' = fails + 1
  /\ get' = [get EXCEPT !.pc = "rejected"]
  /\ UNCHANGED restOfGet

\* the caller has the result or the error
GetSettled ==
  /\ get.pc \in {"returned", "thrown", "rejected"}
  /\ get' = IdleGet
  /\ UNCHANGED fails
  /\ UNCHANGED restOfGet

(* ---- deleteThread and deleteAllByProjectId ---- *)
\* the project a thread belongs to
Projects == {1, 2}
ProjectOf(t) == IF t % 2 = 1 THEN 1 ELSE 2
IdleDel == [op |-> "none", pc |-> "idle", target |-> 0]
\* the threads the awaited repository call removes
Gone ==
  IF del.op = "deleteThread"
    THEN {t \in Threads : t = del.target /\ threads[t].exists}
    ELSE {t \in Threads : threads[t].exists /\ ProjectOf(t) = del.target}
\* the response rows that go with them (ON DELETE CASCADE)
GoneRows == {id \in Ids : repo[id] # NoRow /\ threadOf[id] \in Gone}

\* deleteThread up to its await
deleteThread(threadId) ==
  /\ del = IdleDel
  /\ del' = [op |-> "deleteThread", pc |-> "delete", target |-> threadId]
  /\ UNCHANGED <<repo, threads, cascaded, fails>>
  /\ UNCHANGED restOfDel

\* deleteAllByProjectId up to its await
deleteAllByProjectId(projectId) ==
  /\ del = IdleDel
  /\ del' = [op |-> "deleteAllByProjectId", pc |-> "delete",
             target |-> projectId]
  /\ UNCHANGED <<repo, threads, cascaded, fails>>
  /\ UNCHANGED restOfDel

\* faulty variant: the deletion also drops the tracker's entries and markers
DeleteReturn_Untracks ==
  /\ del.pc = "delete"
  /\ threads' = [t \in Threads |-> IF t \in Gone THEN NoThread ELSE threads[t]]
  /\ repo' = [id \in Ids |-> IF id \in GoneRows THEN NoRow ELSE repo[id]]
  /\ cascaded' = cascaded \cup (GoneRows \cap Tracked)
  /\ del' = [del EXCEPT !.pc = "returned"]
  /\ tasks' = [id \in Ids |-> IF id \in GoneRows THEN NoRow ELSE tasks[id]]
  /\ runningJobs' = runningJobs \ GoneRows
  /\ UNCHANGED <<adaptor, drifted, unit, writes, telemetry, initPc, initSnap,
                 ev, recTasks, gen, recCalls, recResets, recFinal, cteVars,
                 askVars, updVars, prevVars, getVars, threadOf, fails>>

\* deleteOne / deleteAllBy returned: the threads and their responses are gone
\* from the repositories; no tracker is called
DeleteReturn ==
  /\ del.pc = "delete"
  /\ threads' = [t \in Threads |-> IF t \in Gone THEN NoThread ELSE threads[t]]
  /\ repo' = [id \in Ids |-> IF id \in GoneRows THEN NoRow ELSE repo[id]]
  /\ cascaded' = cascaded \cup (GoneRows \cap Tracked)
  /\ del' = [del EXCEPT !.pc = "returned"]
  /\ UNCHANGED fails
  /\ UNCHANGED restOfDel

\* deleteOne / deleteAllBy rejected
DeleteRejected ==
  /\ del.pc = "delete"
  /\ fails < MaxFail
  /\ fails' = fails + 1
  /\ del' = [del EXCEPT !.pc = "rejected"]
  /\ UNCHANGED <<repo, threads, cascaded>>
  /\ UNCHANGED restOfDel

\* the caller has the result or the error
DeleteSettled ==
  /\ del.pc \in {"returned", "rejected"}
  /\ del' = IdleDel
  /\ UNCHANGED <<repo, threads, cascaded, fails>>
  /\ UNCHANGED restOfDel

(* ---- initial states ---- *)
\* rows a stopped process can have left behind: a response synthesized from a
\* view, or an asked response whose job the adaptor may have moved further
PreRows(id) ==
  {<<Row("FINISHED", QUERY_ID_PLACEHOLDER), "none">>}
  \cup {<<Row(p, id), a>> : p \in Statuses, a \in Statuses}

InitRecIdle ==
  /\ recTasks = {}
  /\ gen = [c \in Calls |-> IdleGen]
  /\ recCalls = [t \in Threads |-> 0]
  /\ recResets = [t \in Threads |-> 0]
  /\ recFinal = [t \in Threads |-> 0]

InitTracker ==
  /\ \E n \in 0..MaxPre :
       \E pre \in [1..n -> UNION {PreRows(id) : id \in Ids}] :
         /\ \A id \in 1..n : pre[id] \in PreRows(id)
         /\ \A id \in 1..n : isFinalized(pre[id][1].status)
                               /\ pre[id][2] # "none"
                               => pre[id][2] = pre[id][1].status
         /\ repo = [id \in Ids |-> IF id <= n THEN pre[id][1] ELSE NoRow]
         /\ adaptor = [q \in 0..MaxResp |->
                         IF q \in 1..n THEN pre[q][2] ELSE "none"]
  /\ drifted = {}
  /\ tasks = [id \in Ids |-> NoRow]
  /\ runningJobs = {}
  /\ unit = [id \in Ids |-> IdleUnit]
  /\ writes = [id \in Ids |-> [s \in Statuses |-> 0]]
  /\ telemetry = [id \in Ids |-> <<>>]
  /\ fails = 0
  /\ initPc = "start"
  /\ initSnap = [id \in Ids |-> NoRow]
  /\ ev = NoEv

InitTrackerIdle ==
  /\ repo = [id \in Ids |-> NoRow]
  /\ adaptor = [q \in 0..MaxResp |-> "none"]
  /\ drifted = {}
  /\ tasks = [id \in Ids |-> NoRow]
  /\ runningJobs = {}
  /\ unit = [id \in Ids |-> IdleUnit]
  /\ writes = [id \in Ids |-> [s \in Statuses |-> 0]]
  /\ telemetry = [id \in Ids |-> <<>>]
  /\ fails = 0
  /\ initPc = "done"
  /\ initSnap = [id \in Ids |-> NoRow]
  /\ ev = NoEv

InitCteIdle ==
  /\ cteIn = [steps |-> <<>>, stepIndex |-> NoIndex]
  /\ cteOut = CteIdle

InitAskIdle ==
  /\ views = {}
  /\ req = IdleReq

InitUpdIdle ==
  /\ threadData = [t \in Threads |-> NoData]
  /\ upd = IdleUpd

InitPrevIdle ==
  /\ detail = [id \in Ids |-> NoDetail]
  /\ prev = IdlePrev

InitGetIdle ==
  /\ recData = [t \in Threads |-> NoRecData]
  /\ get = IdleGet

InitDelIdle ==
  /\ threadOf = [id \in Ids |-> 0]
  /\ del = IdleDel
  /\ cascaded = {}

InitNewIdle ==
  /\ InitCteIdle /\ InitAskIdle /\ InitUpdIdle /\ InitPrevIdle /\ InitGetIdle
  /\ InitDelIdle

Init ==
  /\ InitTracker
  /\ InitRecIdle
  /\ threads = [t \in Threads |-> NoThread]
  /\ InitNewIdle

\* the threads a project holds when the recommendation requests arrive
InitRec ==
  /\ InitTrackerIdle
  /\ InitRecIdle
  /\ \E ex \in SUBSET Threads :
       threads = [t \in Threads |-> [NoThread EXCEPT !.exists = (t \in ex)]]
  /\ InitNewIdle

\* the step lists and cutoffs constructCteSql is called with
StepPool ==
  { [cteName |-> "a", summary |-> "s1", sql |-> "SELECT 1"],
    [cteName |-> "b", summary |-> "s2", sql |-> "SELECT 2"],
    [cteName |-> "c", summary |-> "s3", sql |-> "SELECT * FROM a" ] }
StepLists == UNION {[1..n -> StepPool] : n \in 0..MaxSteps}
StepIndexes == {NoIndex} \cup {Index(v) : v \in (0 - 1)..(MaxSteps + 1)}

InitCte ==
  /\ InitTrackerIdle
  /\ InitRecIdle
  /\ threads = [t \in Threads |-> NoThread]
  /\ cteIn \in [steps : StepLists, stepIndex : StepIndexes]
  /\ cteOut = CteIdle
  /\ InitAskIdle
  /\ InitUpdIdle
  /\ InitPrevIdle
  /\ InitGetIdle
  /\ InitDelIdle

\* the service with some threads and some saved views, no call in progress
InitAsk ==
  /\ InitTrackerIdle
  /\ InitRecIdle
  /\ \E ex \in SUBSET Threads :
       /\ Cardinality(ex) < MaxThread
       /\ threads = [t \in Threads |-> [NoThread EXCEPT !.exists = (t \in ex)]]
  /\ views \in SUBSET Views
  /\ req = IdleReq
  /\ InitCteIdle
  /\ InitUpdIdle
  /\ InitPrevIdle
  /\ InitGetIdle
  /\ InitDelIdle

\* some threads with their summary and sql, no call in progress
InitUpd ==
  /\ InitTrackerIdle
  /\ InitRecIdle
  /\ InitCteIdle
  /\ InitAskIdle
  /\ threads \in [Threads -> {NoThread, [NoThread EXCEPT !.exists = TRUE]}]
  /\ threadData \in [Threads -> {NoData} \cup [summary : {"s1"},
                                               sql : {"SELECT 1"}]]
  /\ \A t \in Threads : threads[t].exists <=> threadData[t] # NoData
  /\ upd = IdleUpd
  /\ InitPrevIdle
  /\ InitGetIdle
  /\ InitDelIdle

\* the details of 1..MaxSteps steps a finished response may have
StepOf(i) ==
  IF i % 3 = 1 THEN [cteName |-> "a", summary |-> "s1", sql |-> "SELECT 1"]
  ELSE IF i % 3 = 2
    THEN [cteName |-> "b", summary |-> "s2", sql |-> "SELECT 2"]
  ELSE [cteName |-> "c", summary |-> "s3", sql |-> "SELECT * FROM a"]
DetailLists == {[i \in 1..n |-> StepOf(i)] : n \in 1..MaxSteps}

\* some responses: missing, still in progress without a detail and tracked,
\* or finished with a detail; no call in progress
InitPrev ==
  /\ repo \in [Ids -> {NoRow} \cup {Row(st, q) : st \in {"UNDERSTANDING",
                                                        "FINISHED"},
                                              q \in Jobs}]
  /\ \A id \in Ids : repo[id] # NoRow => repo[id].queryId = id
  /\ adaptor = [q \in 0..MaxResp |->
                  IF q \in Ids /\ repo[q] # NoRow THEN repo[q].status
                  ELSE "none"]
  /\ tasks = [id \in Ids |->
                IF repo[id].status = "UNDERSTANDING" THEN repo[id] ELSE NoRow]
  /\ detail \in [Ids -> {NoDetail} \cup {Detail(l) : l \in DetailLists}]
  /\ \A id \in Ids : detail[id].has <=> repo[id].status = "FINISHED"
  /\ drifted = {}
  /\ runningJobs = {}
  /\ unit = [id \in Ids |-> IdleUnit]
  /\ writes = [id \in Ids |-> [s \in Statuses |-> 0]]
  /\ telemetry = [id \in Ids |-> <<>>]
  /\ fails = 0
  /\ initPc = "done"
  /\ initSnap = [id \in Ids |-> NoRow]
  /\ ev = NoEv
  /\ InitRecIdle
  /\ threads = [t \in Threads |-> NoThread]
  /\ InitCteIdle
  /\ InitAskIdle
  /\ InitUpdIdle
  /\ prev = IdlePrev
  /\ InitGetIdle
  /\ InitDelIdle

\* the recommendation columns a thread row may hold: a job identifier or
\* none, a status or none (one of them outside the enum), questions, error
RecRows ==
  [exists : {TRUE}, queryId : {0, 1},
   questionsStatus : {"none", "STOPPED"} \cup RecommendQuestionResultStatus]
RecDatas ==
  [questions : {NullQuestions, Questions(<<>>), Questions(<<"q1">>)},
   questionsError : {"null", "e1"}]

\* one thread with any recommendation columns, the others missing
InitGet ==
  /\ InitTrackerIdle
  /\ InitRecIdle
  /\ InitCteIdle
  /\ InitAskIdle
  /\ InitUpdIdle
  /\ InitPrevIdle
  /\ \E t0 \in Threads, row \in RecRows, data \in RecDatas :
       /\ threads = [t \in Threads |-> IF t = t0 THEN row ELSE NoThread]
       /\ recData = [t \in Threads |-> IF t = t0 THEN data ELSE NoRecData]
  /\ get = IdleGet
  /\ InitDelIdle

Next ==
  \/ \E q \in Jobs : AdaptorStep(q)
  \/ Tick
  \/ \E id \in Ids : FetchReturn(id)
  \/ \E id \in Ids : UpdateReturn(id)
  \/ InitFindAll
  \/ InitRegister
  \/ AskDetailReturn
  \/ \E q \in Jobs : CreateResponseReturn(q)
  \/ ViewResponseReturn

Spec == Init /\ [][Next]_vars

NextRec ==
  \/ \E c \in Calls, t \in Threads : GenStart(c, t)
  \/ \E c \in Calls : GenFound(c)
  \/ \E c \in Calls : GenContext(c)
  \/ \E c \in Calls : GenGenerated(c)
  \/ \E c \in Calls : GenUpdated(c)
  \/ \E t \in Threads : RecTrackerFinalize(t)

SpecRec == InitRec /\ [][NextRec]_vars

NextCte == CteCall

SpecCte == InitCte /\ [][NextCte]_vars

NextAsk ==
  \/ \E v \in ViewIds : createThread(v)
  \/ \E t \in Threads, v \in ViewIds : createThreadResponse(t, v)
  \/ AskRejected
  \/ CtDetailReturn
  \/ CtProjectReturn
  \/ CtThreadReturn
  \/ CtResponseReturn
  \/ FvViewReturn
  \/ FvProjectReturn
  \/ FvThreadReturn
  \/ RvResponseReturn
  \/ CrThreadReturn
  \/ CrViewReturn
  \/ CrDetailReturn
  \/ CrResponseReturn
  \/ AskSettled

SpecAsk == InitAsk /\ [][NextAsk]_vars

NextUpd ==
  \/ \E t \in Threads, input \in UpdateInputs : updateThread(t, input)
  \/ UpdReturn
  \/ UpdRejected
  \/ UpdSettled

SpecUpd == InitUpd /\ [][NextUpd]_vars

NextPrev ==
  \/ \E id \in Ids, i \in StepIndexes : previewData(id, i)
  \/ PrevResponseReturn
  \/ PrevProjectReturn
  \/ PrevDeploymentReturn
  \/ PrevRejected
  \/ PrevQueryReturn
  \/ \E err \in QueryErrors : PrevQueryFailed(err)
  \/ PrevSettled

SpecPrev == InitPrev /\ [][NextPrev]_vars

NextGet ==
  \/ \E t \in Threads : getThreadRecommendationQuestions(t)
  \/ GetFindReturn
  \/ GetRejected
  \/ GetSettled

SpecGet == InitGet /\ [][NextGet]_vars

\* some threads, one of them with a tracked response that is still in
\* progress; the startup hook done, no call in progress
InitDel ==
  /\ threads \in [Threads -> {NoThread, [NoThread EXCEPT !.exists = TRUE]}]
  /\ repo \in [Ids -> {NoRow} \cup {Row(st, q) : st \in NonFinalStatuses,
                                               q \in Jobs}]
  /\ \A id \in Ids : repo[id] # NoRow => repo[id].queryId = id
  /\ \E id0 \in Ids : \A id \in Ids \ {id0} : repo[id] = NoRow
  /\ threadOf \in [Ids -> 0..MaxThread]
  /\ \A id \in Ids :
       IF repo[id] = NoRow THEN threadOf[id] = 0
       ELSE threadOf[id] \in Threads /\ threads[threadOf[id]].exists
  /\ tasks = repo
  /\ adaptor \in [0..MaxResp -> Statuses \cup {"none"}]
  /\ \A q \in 0..MaxResp :
       adaptor[q] = "none" <=> (q \notin Ids \/ repo[q] = NoRow)
  /\ drifted = {q \in Ids : repo[q] # NoRow /\ adaptor[q] # repo[q].status}
  /\ runningJobs = {}
  /\ unit = [id \in Ids |-> IdleUnit]
  /\ writes = [id \in Ids |-> [s \in Statuses |-> 0]]
  /\ telemetry = [id \in Ids |-> <<>>]
  /\ fails = 0
  /\ initPc = "done"
  /\ initSnap = [id \in Ids |-> NoRow]
  /\ ev = NoEv
  /\ InitRecIdle
  /\ InitCteIdle /\ InitAskIdle /\ InitUpdIdle /\ InitPrevIdle /\ InitGetIdle
  /\ del = IdleDel
  /\ cascaded = {}

NextDel ==
  \/ \E t \in Threads : deleteThread(t)
  \/ \E p \in Projects : deleteAllByProjectId(p)
  \/ DeleteReturn
  \/ DeleteRejected
  \/ DeleteSettled
  \/ \E q \in Jobs : AdaptorStep(q)
  \/ Tick
  \/ \E id \in Ids : FetchReturn(id)
  \/ \E id \in Ids : UpdateReturn(id)

SpecDel == InitDel /\ [][NextDel]_vars

\* the interval timer keeps firing, and every adaptor or repository call of
\* the tracker and of initialize eventually returns or throws
FairSpec ==
  /\ Spec
  /\ WF_vars(InitFindAll) /\ WF_vars(InitRegister)
  /\ WF_vars(Tick)
  /\ \A id \in Ids : WF_vars(FetchReturn(id)) /\ WF_vars(UpdateReturn(id))

(* ======================= properties ======================= *)
FinalPersisted(id) == \E s \in FinalStatuses : writes[id][s] > 0
Stuck(id) == id \in runningJobs /\ unit[id].pc = "idle"

\* C1: a tick never starts a unit of work for an identifier whose earlier
\* unit is still awaiting the adaptor or the repository: that identifier is
\* not among the units the tick starts, its unit in flight is left as it is,
\* and every unit in flight has its identifier in runningJobs.
C1_OneUnitPerId ==
  [][Tick => \A id \in Ids :
       unit[id].pc # "idle" =>
         /\ id \in runningJobs
         /\ id \notin ev'.started
         /\ id \in ev'.skipped
         /\ unit'[id] = unit[id]]_vars

C1_Witness ==
  /\ ev.kind = "tick"
  /\ \E id \in ev.skipped : unit[id].pc \in {"fetch", "update"}

\* C2: whenever a unit of work has ended (status unchanged, status persisted,
\* or the fetch or the write threw), its identifier is not in runningJobs.
C2_MarkerClearedAtEnd ==
  \A id \in Ids :
    (ev.kind \in {"unchanged", "persisted", "rejected"} /\ ev.id = id)
      => id \notin runningJobs

\* C3: every tick queries the adaptor again for each tracked entry whose
\* previous unit of work has ended, in particular one whose fetch or write
\* threw (so that the entry can still be persisted and removed later).
C3_RetriedAfterFailure ==
  [][Tick => \A id \in Tracked :
       unit[id].pc = "idle" => unit'[id].pc = "fetch"]_vars

\* C4: a tracked response whose job the adaptor reports FINISHED gets exactly
\* one tracker write with status FINISHED and is then absent from the mapping.
C4_FinishedPersistedOnce ==
  \A id \in Ids :
    (id \in Tracked /\ adaptor[tasks[id].queryId] = "FINISHED")
      ~> (writes[id]["FINISHED"] = 1 /\ id \notin Tracked)

\* C5: once the tracker has persisted a finalized status for a response, the
\* response is not in the tracked mapping, no unit of work for it is in flight
\* or can be started (the adaptor is not queried for it again), it has been
\* written with a finalized status exactly once, and its persisted status is
\* that status.
C5_FinalizedIsFinal ==
  \A id \in Ids :
    FinalPersisted(id) =>
      /\ id \notin Tracked
      /\ id \notin runningJobs
      /\ unit[id].pc = "idle"
      /\ \E s \in FinalStatuses :
           /\ writes[id][s] = 1
           /\ repo[id].status = s
           /\ \A o \in FinalStatuses \ {s} : writes[id][o] = 0

C5_Witness ==
  /\ ev.kind = "tick"
  /\ \E id \in Ids : FinalPersisted(id)
  /\ ev.started # {}

\* C6: a tracked response whose job has had the status it was registered
\* with ever since its registration has never been written by the tracker.
C6_NoSpuriousWrite ==
  \A id \in Tracked :
    tasks[id].queryId \notin drifted =>
      /\ \A s \in Statuses : writes[id][s] = 0
      /\ repo[id] = tasks[id]
      /\ unit[id].pc # "update"

C6_Witness ==
  /\ ev.kind = "unchanged"
  /\ ev.id \in Tracked
  /\ tasks[ev.id].queryId \notin drifted
  /\ fails = 0

C9_InitializeRegistersUnfinished ==
  ev.kind = "initialized" =>
    /\ Tracked = {id \in Ids : repo[id].status \in NonFinalStatuses}
    /\ \A id \in Tracked : tasks[id] = repo[id]

C9_Witness ==
  /\ ev.kind = "initialized"
  /\ Tracked # {}
  /\ \E id \in Ids : repo[id].status \in FinalStatuses /\ id \notin Tracked

\* C10: every answer-question event of the tracker belongs to a response for
\* which the tracker persisted a finalized status, carries that status, and is
\* tagged success exactly when the status is FINISHED; there is one event per
\* response finalized by the tracker and none for any other response.
C10_TelemetryOnlyOnFinalized ==
  \A id \in Ids :
    /\ Len(telemetry[id]) = (IF FinalPersisted(id) THEN 1 ELSE 0)
    /\ \A i \in 1..Len(telemetry[id]) :
         LET e == telemetry[id][i]
         IN /\ e.status \in FinalStatuses
            /\ writes[id][e.status] = 1
            /\ repo[id].status = e.status
            /\ e.ok = (e.status = "FINISHED")

C10_Witness ==
  \E id, other \in Ids :
    /\ telemetry[id] = <<[status |-> "FINISHED", ok |-> TRUE]>>
    /\ telemetry[other] # <<>>
    /\ ~telemetry[other][1].ok
    /\ writes[id]["SEARCHING"] > 0

\* C8: for every thread, at most one recommendation job is under way: the
\* invocations that have called the adaptor and not yet registered their job,
\* together with the job the recommendation tracker holds, number at most one.
C8_SingleGeneration ==
  \A t \in Threads :
    Cardinality({c \in Calls : gen[c].thread = t
                               /\ gen[c].pc \in {"generate", "update"}})
      + (IF t \in recTasks THEN 1 ELSE 0) <= 1

(* ---- constructCteSql: properties under SpecCte ---- *)
CteDone == cteOut # CteIdle
TwoSteps ==
  << [cteName |-> "a", summary |-> "s1", sql |-> "SELECT 1"],
     [cteName |-> "b", summary |-> "s2", sql |-> "SELECT 2"] >>
\* the steps that remain after the cutoff, when the cutoff is valid
Remaining ==
  IF cteIn.stepIndex.given
    THEN SubSeq(cteIn.steps, 1, cteIn.stepIndex.value + 1)
    ELSE cteIn.steps
CutoffValid ==
  cteIn.stepIndex.given =>
    (cteIn.stepIndex.value >= 0 /\ cteIn.stepIndex.value < Len(cteIn.steps))

\* C14 as stated: for the two-step list a/s1/SELECT 1, b/s2/SELECT 2 and no
\* cutoff the result is "WITH a AS\n-- s1\n(SELECT 1),\n-- s2\nSELECT 2",
\* with a comma after the binding.
C14_AsStated ==
  (CteDone /\ cteIn.steps = TwoSteps /\ ~cteIn.stepIndex.given)
    => cteOut = Returned("WITH a AS\n-- s1\n(SELECT 1),\n-- s2\nSELECT 2")

\* C14: for the two-step list a/s1/SELECT 1, b/s2/SELECT 2 and no cutoff the
\* result is exactly "WITH a AS\n-- s1\n(SELECT 1)\n-- s2\nSELECT 2": the
\* single binding is followed by no comma.
C14_TwoStepExample ==
  (CteDone /\ cteIn.steps = TwoSteps /\ ~cteIn.stepIndex.given)
    => cteOut = Returned("WITH a AS\n-- s1\n(SELECT 1)\n-- s2\nSELECT 2")

C14_Witness ==
  /\ cteIn.steps = TwoSteps
  /\ ~cteIn.stepIndex.given
  /\ cteOut.kind = "returned"

\* one binding: cteName AS, the summary comment, the SQL in parentheses
Binding(step) ==
  step.cteName \o " AS" \o "\n-- " \o step.summary \o "\n"
               \o "(" \o step.sql \o ")"
\* the bindings of steps[from..to], consecutive ones separated by a comma
RECURSIVE Bindings(_, _, _)
Bindings(steps, from, to) ==
  IF from > to THEN ""
  ELSE IF from = to THEN Binding(steps[from])
  ELSE Binding(steps[from]) \o "," \o Bindings(steps, from + 1, to)

\* C15: when n >= 2 steps remain after the cutoff, the result is WITH, then
\* the n-1 bindings of the non-final steps in input order, each holding its
\* summary comment and consecutive ones separated by a comma, then the final
\* step's summary comment and its SQL, unwrapped.
C15_WithClauseShape ==
  (CteDone /\ CutoffValid /\ Len(Remaining) >= 2)
    => LET n == Len(Remaining)
       IN cteOut = Returned("WITH " \o Bindings(Remaining, 1, n - 1)
                              \o "\n-- " \o Remaining[n].summary
                              \o "\n" \o Remaining[n].sql)

C15_Witness ==
  /\ CteDone
  /\ cteIn.stepIndex.given
  /\ cteIn.stepIndex.value = 2
  /\ Len(cteIn.steps) = 3
  /\ cteOut.kind = "returned"

\* C16: for a list of at least one step the call throws exactly when a
\* cutoff is given and it is negative or not below the length of the list.
C16_ThrowsIffOutOfRange ==
  (CteDone /\ Len(cteIn.steps) >= 1)
    => (cteOut.kind = "thrown"
          <=> (cteIn.stepIndex.given
               /\ (cteIn.stepIndex.value < 0
                   \/ cteIn.stepIndex.value >= Len(cteIn.steps))))

C16_Witness ==
  /\ Len(cteIn.steps) >= 1
  /\ cteIn.stepIndex.given
  /\ cteIn.stepIndex.value = Len(cteIn.steps)
  /\ cteOut.kind = "thrown"

\* C17: when exactly one step remains after the cutoff (a list of one step
\* and no cutoff, or any non-empty list with cutoff 0) the result is the
\* comment with that step's summary, a newline and the step's SQL, without
\* WITH and without a binding.
C17_SingleStep ==
  (CteDone /\ CutoffValid /\ Len(Remaining) = 1)
    => /\ cteOut = Returned("-- " \o cteIn.steps[1].summary \o "\n"
                                  \o cteIn.steps[1].sql)
       /\ cteOut.sql \in {"-- s1\nSELECT 1", "-- s2\nSELECT 2",
                          "-- s3\nSELECT * FROM a"}

C17_Witness ==
  /\ CteDone
  /\ Len(cteIn.steps) >= 2
  /\ cteIn.stepIndex.given
  /\ cteIn.stepIndex.value = 0
  /\ cteOut.kind = "returned"

(* ---- createThread and createThreadResponse: properties under SpecAsk ---- *)
IsPrefix(a, b) == Len(a) <= Len(b) /\ a = SubSeq(b, 1, Len(a))
InCalls(c) == \E i \in 1..Len(req.calls) : req.calls[i] = c
\* what the call in progress has changed so far
JobCreated == adaptor # req.before.adaptor
ThreadCreated == threads # req.before.threads
NewRows == {id \in Ids : repo[id] # req.before.repo[id]}
NewTasks == {id \in Ids : tasks[id] # req.before.tasks[id]}
CreateThreadOrder ==
  <<"generateAskDetail", "getCurrentProject", "threadRepository.createOne",
    "threadResponseRepository.createOne", "addTask">>

\* C11: a createThread without viewId calls generateAskDetail, creates the
\* Thread row, creates the response with status UNDERSTANDING and the job
\* identifier the adaptor returned, and registers that row with the
\* tracker, in this order; when a step fails the error reaches the caller
\* and no later step has happened (after a failed adaptor call there is no
\* new Thread row, no new response and no new tracker entry).
C11_CreateThreadInOrder ==
  (req.op = "createThread" /\ req.viewId = 0)
    => /\ IsPrefix(req.calls, CreateThreadOrder)
       /\ ThreadCreated => JobCreated
       /\ NewRows # {} => ThreadCreated
       /\ NewTasks # {} => NewTasks = NewRows
       /\ \A id \in NewRows :
            /\ repo[id] = Row("UNDERSTANDING", req.queryId)
            /\ req.before.adaptor[req.queryId] = "none"
            /\ adaptor[req.queryId] # "none"
       /\ \A id \in NewTasks : tasks[id] = repo[id]
       /\ req.pc = "returned"
            => (JobCreated /\ ThreadCreated /\ Cardinality(NewRows) = 1
                /\ NewTasks = NewRows /\ req.calls = CreateThreadOrder)
       /\ req.pc = "rejected"
            => /\ req.failedAt = "ct_detail"
                 => (~JobCreated /\ ~ThreadCreated /\ NewRows = {}
                     /\ NewTasks = {} /\ Len(req.calls) = 1)
               /\ req.failedAt = "ct_project"
                 => (~ThreadCreated /\ NewRows = {} /\ NewTasks = {}
                     /\ Len(req.calls) = 2)
               /\ req.failedAt = "ct_thread"
                 => (~ThreadCreated /\ NewRows = {} /\ NewTasks = {}
                     /\ Len(req.calls) = 3)
               /\ req.failedAt = "ct_response"
                 => (NewRows = {} /\ NewTasks = {} /\ Len(req.calls) = 4)

C11_Witness ==
  /\ req.op = "createThread"
  /\ req.viewId = 0
  /\ req.pc = "rejected"
  /\ req.failedAt = "ct_response"
  /\ ThreadCreated

\* C12: a createThread with a viewId makes no call of the AI adaptor, and
\* the response it creates has status FINISHED and the placeholder job
\* identifier.
C12_ViewPathSkipsAdaptor ==
  (req.op = "createThread" /\ req.viewId # 0)
    => /\ ~InCalls("generateAskDetail")
       /\ ~JobCreated
       /\ \A id \in NewRows :
            repo[id] = Row("FINISHED", QUERY_ID_PLACEHOLDER)
       /\ req.pc = "returned" => Cardinality(NewRows) = 1

C12_Witness ==
  /\ req.op = "createThread"
  /\ req.viewId # 0
  /\ req.pc = "returned"
  /\ \E id \in NewRows : repo[id].status = "FINISHED"

\* C13: createThreadResponse throws a not-found error when the thread does
\* not exist, and when a viewId is given whose view does not exist; in both
\* cases it has called no adaptor operation, created no response and
\* registered nothing with the tracker.
C13_NotFoundHasNoEffect ==
  req.op = "createThreadResponse"
    => /\ ~threads[req.threadId].exists
            => \/ req.pc = "cr_thread"
               \/ req.pc = "rejected" /\ req.failedAt = "cr_thread"
               \/ req.pc = "thrown" /\ req.error = "Thread not found"
       /\ (threads[req.threadId].exists /\ req.viewId # 0
           /\ req.viewId \notin views)
            => \/ req.pc \in {"cr_thread", "cr_view"}
               \/ req.pc = "rejected" /\ req.failedAt \in {"cr_thread", "cr_view"}
               \/ req.pc = "thrown" /\ req.error = "View not found"
       /\ req.pc = "thrown"
            => /\ ~InCalls("generateAskDetail")
               /\ ~InCalls("threadResponseRepository.createOne")
               /\ ~InCalls("addTask")
               /\ ~JobCreated
               /\ NewRows = {}
               /\ NewTasks = {}

C13_Witness ==
  /\ req.op = "createThreadResponse"
  /\ req.pc = "thrown"
  /\ req.error = "Thread not found"
  /\ req.viewId # 0

(* ---- updateThread: properties under SpecUpd ---- *)
\* C18: an updateThread with an empty input object throws the validation
\* error and issues no repository write; with a non-empty input it issues
\* exactly one update, of that thread, naming the summary column only, and
\* when it returns nothing but that thread's summary has changed.
C18_UpdateThread ==
  upd.pc # "idle"
    => /\ isEmpty(upd.input)
            => /\ upd.pc = "thrown"
               /\ upd.error = "Update thread input is empty"
               /\ upd.updates = <<>>
               /\ threadData = upd.before
       /\ ~isEmpty(upd.input)
            => /\ upd.pc # "thrown"
               /\ Len(upd.updates) = 1
               /\ upd.updates[1].threadId = upd.threadId
               /\ upd.updates[1].fields = {"summary"}
               /\ upd.updates[1].summary = upd.input.summary
               /\ upd.pc \in {"update", "rejected"}
                    => threadData = upd.before
               /\ upd.pc = "returned"
                    => \A t \in Threads :
                         /\ threadData[t].sql = upd.before[t].sql
                         /\ t # upd.threadId
                              => threadData[t] = upd.before[t]
                         /\ (t = upd.threadId /\ threads[t].exists)
                              => threadData[t].summary = upd.input.summary

C18_Witness ==
  /\ upd.pc = "returned"
  /\ threads[upd.threadId].exists
  /\ threadData[upd.threadId].summary = "s2"
  /\ upd.before[upd.threadId].summary = "s1"

(* ---- previewData: properties under SpecPrev ---- *)
ReachedQuery == prev.queries # <<>>

\* C19: a previewData of a response that does not exist throws the
\* not-found error; a call that has reached the query service sends exactly
\* one preview event: a successful one with the SQL when the query returns,
\* a failed one with the SQL and the error message when the query throws,
\* and then the caller gets the very error the query threw.
C19_PreviewTelemetry ==
  prev.pc # "idle"
    => /\ repo[prev.responseId] = NoRow
            => \/ prev.pc = "response"
               \/ prev.pc = "rejected" /\ prev.failedAt = "response"
               \/ prev.pc = "thrown"
                  /\ prev.error = "Thread response not found"
       /\ ReachedQuery
            => /\ prev.pc \in {"query", "returned", "thrown"}
               /\ Len(prev.queries) = 1
               /\ prev.pc = "query" => prev.events = <<>>
               /\ prev.pc = "returned"
                    => prev.events =
                         <<PreviewEvent(prev.queries[1], "none",
                                        "undefined", TRUE)>>
               /\ prev.pc = "thrown"
                    => /\ prev.thrownByQuery \in QueryErrors
                       /\ prev.events =
                            <<PreviewEvent(prev.queries[1],
                                           prev.thrownByQuery.message,
                                           prev.thrownByQuery.service,
                                           FALSE)>>
                       /\ prev.error = prev.thrownByQuery.message

C19_Witness ==
  /\ ReachedQuery
  /\ prev.pc = "thrown"
  /\ Len(prev.events) = 1
  /\ prev.events[1].service = "IBIS"
  /\ prev.stepIndex.given

(* ---- getThreadRecommendationQuestions: properties under SpecGet ---- *)
\* C20: getThreadRecommendationQuestions throws when the thread does not
\* exist; for a thread with a job identifier and a status it returns the
\* status if it is one of NOT_STARTED, GENERATING, FINISHED, FAILED and
\* NOT_STARTED otherwise, with the stored questions and error; for a thread
\* without job identifier or without status it returns NOT_STARTED and no
\* questions; it never changes a thread row or a tracker.
C20_RecommendationQuestionsRead ==
  get.pc # "idle"
    => /\ threads = get.before.threads
       /\ recData = get.before.recData
       /\ recTasks = get.before.recTasks
       /\ tasks = get.before.tasks
       /\ ~threads[get.threadId].exists
            => \/ get.pc \in {"find", "rejected"}
               \/ get.pc = "thrown" /\ get.error = "Thread not found"
       /\ threads[get.threadId].exists => get.pc # "thrown"
       /\ get.pc = "returned"
            => LET thread == threads[get.threadId]
                   data == recData[get.threadId]
               IN IF thread.queryId # 0 /\ thread.questionsStatus # "none"
                    THEN /\ get.res.status \in RecommendQuestionResultStatus
                         /\ thread.questionsStatus
                              \in {"NOT_STARTED", "GENERATING", "FINISHED",
                                   "FAILED"}
                              => get.res.status = thread.questionsStatus
                         /\ thread.questionsStatus
                              \notin {"NOT_STARTED", "GENERATING", "FINISHED",
                                      "FAILED"}
                              => get.res.status = "NOT_STARTED"
                         /\ data.questions.set
                              => get.res.questions = data.questions.items
                         /\ ~data.questions.set => get.res.questions = <<>>
                         /\ get.res.error = data.questionsError
                    ELSE /\ get.res.status = "NOT_STARTED"
                         /\ get.res.questions = <<>>

C20_Witness ==
  /\ get.pc = "returned"
  /\ threads[get.threadId].queryId # 0
  /\ threads[get.threadId].questionsStatus = "STOPPED"
  /\ get.res.status = "NOT_STARTED"
  /\ get.res.questions = <<"q1">>
  /\ get.res.error = "e1"

(* ---- BackgroundTracker: write discipline and bookkeeping, under Spec ---- *)
\* C21: the tracker issues a write for a response only when the status the
\* poll observed differs from the status last persisted for that response:
\* no unit of work is waiting for updateOne with the status the row already
\* has (so ticks during an unchanged intermediate status add no write).
C21_WriteOnlyOnTransition ==
  \A id \in Ids :
    unit[id].pc = "update" => unit[id].res # repo[id].status
\* C22: in every state between two segments of code, each identifier in
\* runningJobs is a key of the tracked mapping; in particular the segment
\* that removes a finalized entry also clears its marker.
C22_InFlightIsTracked ==
  /\ runningJobs \subseteq Tracked
  /\ \A id \in Ids : unit[id].pc # "idle" => id \in Tracked

C22_Witness ==
  /\ ev.kind = "persisted"
  /\ isFinalized(ev.st)
  /\ ev.id \notin Tracked
  /\ ev.id \notin runningJobs
  /\ runningJobs # {}
\* C23: every entry of the tracked mapping has a cached status that is not
\* finalized and a job identifier that is not the placeholder; a response
\* made from a view (FINISHED, placeholder) is never tracked, and no unit of
\* work queries the adaptor with the placeholder.
C23_TrackedIsUnfinished ==
  /\ \A id \in Tracked :
       /\ ~isFinalized(tasks[id].status)
       /\ tasks[id].queryId # QUERY_ID_PLACEHOLDER
  /\ \A id \in Ids :
       repo[id] = Row("FINISHED", QUERY_ID_PLACEHOLDER) => id \notin Tracked
  /\ \A id \in Ids :
       unit[id].pc # "idle" => unit[id].tr.queryId # QUERY_ID_PLACEHOLDER

C23_Witness ==
  /\ ev.kind = "tick"
  /\ ev.started # {}
  /\ \E id \in Ids :
       /\ repo[id] = Row("FINISHED", QUERY_ID_PLACEHOLDER)
       /\ initSnap[id] = NoRow
       /\ id \notin ev.started
(* ---- deleteThread and deleteAllByProjectId: properties under SpecDel ---- *)
\* C24: a step of deleteThread or deleteAllByProjectId leaves the tracked
\* mapping and runningJobs as they are; a tracked response deleted with its
\* thread stays tracked until the tracker itself finalizes it, every tick
\* starts a query for it unless one is in flight, and a query that returns
\* a status other than the cached one is followed by an updateOne for it.
C24_DeletionLeavesTracker ==
  /\ [][del' # del => (tasks' = tasks /\ runningJobs' = runningJobs)]_vars
  /\ [](\A id \in cascaded : ~FinalPersisted(id) => id \in Tracked)
  /\ [][Tick => \A id \in cascaded \cap Tracked :
          id \notin runningJobs => unit'[id].pc = "fetch"]_vars
  /\ [][\A id \in cascaded :
          (unit[id].pc = "fetch" /\ ev' # ev /\ ev'.id = id
           /\ ev'.kind \in {"changed", "unchanged"}
           /\ adaptor[unit[id].tr.queryId] # unit[id].tr.status)
            => (unit'[id].pc = "update"
                /\ unit'[id].res = adaptor[unit[id].tr.queryId])]_vars

C24_Witness ==
  \E id \in cascaded :
    /\ repo[id] = NoRow
    /\ id \in Tracked
    /\ unit[id].pc = "update"
    /\ ev.kind = "changed"

=============================================================================
